---- MODULE Spec2Model ----
(***************************************************************************)
(* Single-elimination tournament bracket engine of tournament.py:          *)
(* Match, TournamentBracket (construction, set_match_winner,               *)
(* get_champion, to_dict, from_dict), and the TournamentBracketGUI         *)
(* session that edits, saves and loads tournaments in a directory of       *)
(* JSON files.  Python lists are modelled as 1-based sequences; a          *)
(* Python index i (0-based, negative values counted from the end) is       *)
(* translated by PyPos.                                                    *)
(***************************************************************************)
EXTENDS Integers, Sequences, FiniteSets, TLC

(* ------------------------------------------------------------------ *)
(* Bounds and input domains                                            *)
(* ------------------------------------------------------------------ *)

\* longest participant list handed to the constructor
MaxPlayers == 5

\* longest participant list when only construction is examined
MaxBuild == 9

\* participant names (non-empty strings); duplicates are allowed in a list
Names == {"A", "B"}

\* a name that is never a participant, used as an argument only
Outsider == "Zed"

\* Python's None
None == "<None>"

\* the values a caller can pass as winner
WinnerArgs == Names \cup {Outsider, None}

RECURSIVE SeqsOfLen(_)
SeqsOfLen(n) ==
    IF n = 0 THEN {<<>>}
    ELSE {Append(s, x) : s \in SeqsOfLen(n - 1), x \in Names}

\* names are opaque strings that the code only compares, so the first
\* participant of a list is called "A"
ParticipantLists ==
    {ps \in UNION {SeqsOfLen(n) : n \in 0..MaxPlayers} :
        Len(ps) = 0 \/ ps[1] = "A"}

\* participant lists used when only construction is examined
BuildLists == UNION {SeqsOfLen(n) : n \in 0..MaxBuild}

(* ------------------------------------------------------------------ *)
(* Python helpers                                                      *)
(* ------------------------------------------------------------------ *)

\* truth value of an Optional[str]: None and "" are falsy
Truthy(x) == x # None /\ x # ""

\* list[i] is defined for -len <= i < len
PyValid(s, i) == -Len(s) <= i /\ i < Len(s)

\* 1-based position of list[i]
PyPos(s, i) == IF i < 0 THEN Len(s) + i + 1 ELSE i + 1

\* list[i]
PyGet(s, i) == s[PyPos(s, i)]

RECURSIVE Pow2(_)
Pow2(k) == IF k <= 0 THEN 1 ELSE 2 * Pow2(k - 1)

\* math.ceil(math.log2(n)) for n >= 1, by repeated halving
RECURSIVE CeilLog2(_)
CeilLog2(n) == IF n <= 1 THEN 0 ELSE 1 + CeilLog2((n + 1) \div 2)

(* ------------------------------------------------------------------ *)
(* Match                                                               *)
(* ------------------------------------------------------------------ *)

Match(id, p1, p2, rnd) ==
    [match_id |-> id, player1 |-> p1, player2 |-> p2,
     winner |-> None, round_num |-> rnd]

\* variant: any real name is accepted, the slots are not consulted
set_winner_ok_any_name(m, w) == Truthy(w)

\* Match.set_winner: the membership test that guards the assignment
set_winner_ok(m, w) == w \in {m.player1, m.player2}

\* Match.set_winner: the assignment
set_winner(m, w) == [m EXCEPT !.winner = w]

(* ------------------------------------------------------------------ *)
(* TournamentBracket construction                                      *)
(* ------------------------------------------------------------------ *)

\* variant: math.floor in place of math.ceil
RECURSIVE FloorLog2(_)
FloorLog2(n) == IF n <= 1 THEN 0 ELSE 1 + FloorLog2(n \div 2)

num_rounds_floor(n) == IF n <= 1 THEN 1 ELSE FloorLog2(n)

\* variant: no special case for an empty or single-participant list
num_rounds_no_special_case(n) == CeilLog2(n)

num_rounds_of(n) == IF n <= 1 THEN 1 ELSE CeilLog2(n)

bracket_size_of(n) == IF n <= 1 THEN 2 ELSE Pow2(num_rounds_of(n))

\* variant: the None entries are put in front of the list
seed_participants_byes_first(ps, size) ==
    [k \in 1..(IF size > Len(ps) THEN size ELSE Len(ps)) |->
        IF k <= size - Len(ps) THEN None ELSE ps[k - (size - Len(ps))]]

\* _seed_participants: the list followed by bracket_size - n None entries
seed_participants(ps, size) ==
    [k \in 1..(IF size > Len(ps) THEN size ELSE Len(ps)) |->
        IF k <= Len(ps) THEN ps[k] ELSE None]

\* variant: the k-th slot from the front meets the k-th from the back
first_round_match_outside_in(seeded, k) ==
    LET m == Match(k, seeded[k + 1], seeded[Len(seeded) - k], 1)
    IN  IF Truthy(m.player1) /\ ~Truthy(m.player2)
            THEN [m EXCEPT !.winner = m.player1]
        ELSE IF Truthy(m.player2) /\ ~Truthy(m.player1)
            THEN [m EXCEPT !.winner = m.player2]
        ELSE m

\* variant: byes are left unresolved
first_round_match_no_bye(seeded, k) ==
    Match(k, seeded[2 * k + 1], seeded[2 * k + 2], 1)

\* round-1 match number k (0-based), with the bye auto-resolution
first_round_match(seeded, k) ==
    LET m == Match(k, seeded[2 * k + 1], seeded[2 * k + 2], 1)
    IN  IF Truthy(m.player1) /\ ~Truthy(m.player2)
            THEN [m EXCEPT !.winner = m.player1]
        ELSE IF Truthy(m.player2) /\ ~Truthy(m.player1)
            THEN [m EXCEPT !.winner = m.player2]
        ELSE m

\* number of matches created before round rnd (the running match_id)
RECURSIVE first_id(_, _)
first_id(size, rnd) ==
    IF rnd <= 1 THEN 0
    ELSE first_id(size, rnd - 1) + size \div Pow2(rnd - 1)

\* a round after the first: empty matches with consecutive identifiers
later_round(size, rnd) ==
    [k \in 1..(size \div Pow2(rnd)) |->
        Match(first_id(size, rnd) + k - 1, None, None, rnd)]

\* variant: round 2 is filled with the bye winners of round 1
initialize_matches_advancing_byes(seeded, size, rounds) ==
    [rnd \in 1..rounds |->
        IF rnd = 1
            THEN [k \in 1..(size \div 2) |-> first_round_match(seeded, k - 1)]
        ELSE IF rnd = 2
            THEN [k \in 1..(size \div 4) |->
                    [later_round(size, 2)[k] EXCEPT
                        !.player1 = first_round_match(seeded, 2 * k - 2).winner,
                        !.player2 = first_round_match(seeded, 2 * k - 1).winner]]
        ELSE later_round(size, rnd)]

initialize_matches(seeded, size, rounds) ==
    [rnd \in 1..rounds |->
        IF rnd = 1
            THEN [k \in 1..(size \div 2) |-> first_round_match(seeded, k - 1)]
            ELSE later_round(size, rnd)]

TournamentBracket(ps) ==
    LET n      == Len(ps)
        rounds == num_rounds_of(n)
        size   == bracket_size_of(n)
        seeded == seed_participants(ps, size)
    IN  [participants        |-> ps,
         num_participants    |-> n,
         num_rounds          |-> rounds,
         bracket_size        |-> size,
         seeded_participants |-> seeded,
         matches             |-> initialize_matches(seeded, size, rounds)]

(* ------------------------------------------------------------------ *)
(* set_match_winner and get_champion                                   *)
(* ------------------------------------------------------------------ *)

\* variant: only the upper end of the range is tested
invalid_round_upper_only(b, r) == r > b.num_rounds

\* the round guard of set_match_winner
invalid_round(b, r) == r < 1 \/ r > b.num_rounds

\* variant: the winner is written into both slots
propagate_both_slots(next_match, match_index, w) ==
    [next_match EXCEPT !.player1 = w, !.player2 = w]

\* variant: the winner takes the first slot that is still empty
propagate_first_free(next_match, match_index, w) ==
    IF next_match.player1 = None
        THEN [next_match EXCEPT !.player1 = w]
        ELSE [next_match EXCEPT !.player2 = w]

\* variant: the two slots are exchanged
propagate_swapped(next_match, match_index, w) ==
    IF match_index % 2 = 0
        THEN [next_match EXCEPT !.player2 = w]
        ELSE [next_match EXCEPT !.player1 = w]

\* the slot of the next-round match that receives the winner
propagate(next_match, match_index, w) ==
    IF match_index % 2 = 0
        THEN [next_match EXCEPT !.player1 = w]
        ELSE [next_match EXCEPT !.player2 = w]

\* variant: rounds up instead of down
next_match_index_ceil(match_index) == (match_index + 1) \div 2

\* index of the next-round match: match_index // 2 (floor division)
next_match_index(match_index) == match_index \div 2

\* self.matches[round_num][next_match_index] can be read
next_match_valid(b, r, i) ==
    /\ PyValid(b.matches, r)
    /\ PyValid(PyGet(b.matches, r), next_match_index(i))

\* the call's outcome: "ok", or the exception it raises
set_match_winner_result(b, r, i, w) ==
    IF invalid_round(b, r) THEN "InvalidRound"
    ELSE IF ~PyValid(b.matches, r - 1) THEN "IndexError"
    ELSE
        LET round_matches == PyGet(b.matches, r - 1)
        IN  IF ~PyValid(round_matches, i) THEN "IndexError"
            ELSE IF ~set_winner_ok(PyGet(round_matches, i), w)
                THEN "InvalidWinner"
            ELSE IF r < b.num_rounds /\ ~next_match_valid(b, r, i)
                THEN "IndexError"
            ELSE "ok"

\* the bracket the call leaves behind (a mutation made before a raise stays)
set_match_winner(b, r, i, w) ==
    IF invalid_round(b, r) \/ ~PyValid(b.matches, r - 1) THEN b
    ELSE
        LET rp == PyPos(b.matches, r - 1)
            round_matches == b.matches[rp]
        IN  IF ~PyValid(round_matches, i) THEN b
            ELSE
                LET p == PyPos(round_matches, i)
                IN  IF ~set_winner_ok(round_matches[p], w) THEN b
                    ELSE IF r < b.num_rounds /\ next_match_valid(b, r, i)
                        THEN
                            LET np == PyPos(b.matches, r)
                                q  == PyPos(b.matches[np], next_match_index(i))
                            IN  [b EXCEPT
                                    !.matches[rp][p] = set_winner(@, w),
                                    !.matches[np][q] = propagate(@, i, w)]
                    ELSE [b EXCEPT !.matches[rp][p] = set_winner(@, w)]

\* variant: reads the last match of the first round
get_champion_last_of_first_round(b) ==
    IF b.num_rounds > 0 THEN PyGet(PyGet(b.matches, 0), -1).winner ELSE None

\* variant: reads the first round instead of the last
get_champion_first_round(b) ==
    IF b.num_rounds > 0 THEN PyGet(PyGet(b.matches, 0), 0).winner ELSE None

\* the final match's winner; "IndexError" if matches[-1][0] cannot be read
get_champion(b) ==
    IF b.num_rounds > 0
        THEN IF PyValid(b.matches, -1) /\ PyValid(PyGet(b.matches, -1), 0)
                THEN PyGet(PyGet(b.matches, -1), 0).winner
                ELSE "IndexError"
        ELSE None

(* ------------------------------------------------------------------ *)
(* to_dict and from_dict                                               *)
(* ------------------------------------------------------------------ *)

\* the dictionary written for a bracket: the participant list and, for each
\* round, the fields of each match
to_dict(b) == [participants |-> b.participants, matches |-> b.matches]

\* variant: the stored winner is not restored
restore_match_slots_only(match, match_data) ==
    [match EXCEPT !.player1 = match_data["player1"],
                  !.player2 = match_data["player2"]]

\* the three fields from_dict copies from a stored match
restore_match(match, match_data) ==
    [match EXCEPT !.player1 = match_data["player1"],
                  !.player2 = match_data["player2"],
                  !.winner  = match_data["winner"]]

\* every stored round and match exists in the bracket rebuilt from the
\* stored participants (otherwise bracket.matches[round_idx][match_idx]
\* raises IndexError)
from_dict_in_range(data) ==
    LET rebuilt == TournamentBracket(data["participants"])
    IN  /\ Len(data["matches"]) <= Len(rebuilt.matches)
        /\ \A r \in 1..Len(data["matches"]) :
              Len(data["matches"][r]) <= Len(rebuilt.matches[r])

\* the bracket from_dict returns, or "IndexError"
from_dict(data) ==
    IF ~from_dict_in_range(data) THEN "IndexError"
    ELSE
        LET rebuilt == TournamentBracket(data["participants"])
            stored  == data["matches"]
        IN  [rebuilt EXCEPT !.matches =
                [r \in 1..Len(rebuilt.matches) |->
                    [k \in 1..Len(rebuilt.matches[r]) |->
                        IF r <= Len(stored) /\ k <= Len(stored[r])
                            THEN restore_match(rebuilt.matches[r][k],
                                               stored[r][k])
                            ELSE rebuilt.matches[r][k]]]]

(* ------------------------------------------------------------------ *)
(* TournamentBracketGUI: the session and the tournaments directory            *)
(* ------------------------------------------------------------------ *)

\* longest player list typed into the Player List tab
MaxSessionPlayers == 3

\* longest player list while several tournaments are kept
MaxStorePlayers == 1

\* longest player list typed in while no tournament is open (such a list is
\* never saved and is dropped by create, load and delete)
MaxUnsavedPlayers == 0

\* the identifiers uuid4 hands out, in the order it hands them out
TournamentIds == <<"t1", "t2">>

\* the identifier of a session that keeps a single tournament
OneTournament == <<"t1">>

\* the names typed into the Player List tab: the session code only
\* appends, pops, shuffles and stores them
TypedNames == {"A"}

\* texts typed into an editable field
Texts == {"Open"}

\* the metadata field edited (the four input boxes of the Current Tournament
\* tab are handled alike)
EditableFields == {"name"}

Tabs == {"Tournaments", "Current Tournament", "Player List", "Bracket",
         "Final Results"}

\* self.bracket = None, and JSON null under the "bracket" key
NoBracket == [none |-> "bracket"]

\* self.current_metadata = None
NoMetadata == [none |-> "metadata"]

\* self.selected_match = None
NoSelection == <<>>

\* <id>.json does not exist
NoFile == [file |-> "missing"]

\* <id>.json exists and json.load cannot parse it
Truncated == [file |-> "truncated"]

\* variant: the name is filled from the location argument
metadata_name_from_location(id, name, location, date_scheduled, time_scheduled, date_created) ==
    [id |-> id, name |-> location, location |-> location,
     date_scheduled |-> date_scheduled, time_scheduled |-> time_scheduled,
     date_created |-> date_created]

TournamentMetadata(id, name, location, date_scheduled, time_scheduled, date_created) ==
    [id |-> id, name |-> name, location |-> location,
     date_scheduled |-> date_scheduled, time_scheduled |-> time_scheduled,
     date_created |-> date_created]

\* the attributes TournamentBracketGUI.__init__ sets, before the list is loaded;
\* shared says that self.bracket.participants and self.editing_players are
\* one and the same list object
new_gui ==
    [current_tournament_id |-> None,
     current_metadata      |-> NoMetadata,
     editing_players       |-> <<>>,
     shared                |-> FALSE,
     active_tab            |-> "Tournaments",
     selected_match        |-> NoSelection,
     tournaments_list      |-> <<>>,
     tour_active           |-> FALSE,
     tour_step_index       |-> 0]

\* the bracket after self.editing_players was appended to or popped from
\* in place
bracket_seeing(g, b, players) ==
    IF b # NoBracket /\ g.shared THEN [b EXCEPT !.participants = players]
    ELSE b

\* variant: the bracket is left out of the saved data
json_record_without_bracket(g, b) ==
    [file         |-> "json",
     metadata     |-> g.current_metadata,
     participants |-> g.editing_players,
     bracket      |-> NoBracket]

\* the data save_current_tournament dumps
json_record(g, b) ==
    [file         |-> "json",
     metadata     |-> g.current_metadata,
     participants |-> g.editing_players,
     bracket      |-> IF b = NoBracket THEN NoBracket ELSE to_dict(b)]

\* variant: every tournament is written to the same file
save_under_first_id(dir, g, b) ==
    IF g.current_tournament_id = None \/ g.current_metadata = NoMetadata
        THEN dir
        ELSE [dir EXCEPT ![TournamentIds[1]] = json_record(g, b)]

\* the directory after save_current_tournament
save_current_tournament(dir, g, b) ==
    IF g.current_tournament_id = None \/ g.current_metadata = NoMetadata
        THEN dir
        ELSE [dir EXCEPT ![g.current_tournament_id] = json_record(g, b)]

\* variant: the identifier is taken over before the file is looked at
load_tournament_id_first(dir, g, b, tournament_id) ==
    LET data == dir[tournament_id]
        g0   == [g EXCEPT !.current_tournament_id = tournament_id]
    IN  IF data = NoFile
            THEN [gui |-> g0, bracket |-> b, printed |-> "nothing"]
        ELSE IF data = Truncated
            THEN [gui |-> g0, bracket |-> b,
                  printed |-> "Error loading tournament"]
        ELSE
            LET g1 == [g EXCEPT !.current_tournament_id = tournament_id,
                                !.current_metadata = data["metadata"],
                                !.editing_players = data["participants"],
                                !.shared = FALSE]
                g2 == [g1 EXCEPT !.active_tab = "Current Tournament"]
            IN  IF data["bracket"] = NoBracket
                    THEN [gui |-> g2, bracket |-> NoBracket,
                          printed |-> "Loaded tournament"]
                ELSE IF ~from_dict_in_range(data["bracket"])
                    THEN [gui |-> g1, bracket |-> b,
                          printed |-> "Error loading tournament"]
                ELSE [gui |-> g2, bracket |-> from_dict(data["bracket"]),
                      printed |-> "Loaded tournament"]

\* the session after load_tournament and what the call printed
load_tournament(dir, g, b, tournament_id) ==
    LET data == dir[tournament_id]
    IN  IF data = NoFile
            THEN [gui |-> g, bracket |-> b, printed |-> "nothing"]
        ELSE IF data = Truncated
            THEN [gui |-> g, bracket |-> b,
                  printed |-> "Error loading tournament"]
        ELSE
            LET g1 == [g EXCEPT !.current_tournament_id = tournament_id,
                                !.current_metadata = data["metadata"],
                                !.editing_players = data["participants"],
                                !.shared = FALSE]
                g2 == [g1 EXCEPT !.active_tab = "Current Tournament"]
            IN  IF data["bracket"] = NoBracket
                    THEN [gui |-> g2, bracket |-> NoBracket,
                          printed |-> "Loaded tournament"]
                ELSE IF ~from_dict_in_range(data["bracket"])
                    THEN [gui |-> g1, bracket |-> b,
                          printed |-> "Error loading tournament"]
                ELSE [gui |-> g2, bracket |-> from_dict(data["bracket"]),
                      printed |-> "Loaded tournament"]

\* the orders in which glob("*.json") may yield the files of the directory
GlobOrders(dir) ==
    LET present == {id \in DOMAIN dir : dir[id] # NoFile}
    IN  {order \in [1..Cardinality(present) -> present] :
            \A j, k \in 1..Cardinality(present) :
                j # k => order[j] # order[k]}

\* list.sort(key=date_created, reverse=True): a stable sort, newest first
RECURSIVE sort_newest_first(_)
sort_newest_first(list) ==
    IF list = <<>> THEN <<>>
    ELSE
        LET m    == Head(list)
            rest == sort_newest_first(Tail(list))
            newer == {k \in 1..Len(rest) :
                        rest[k].date_created > m.date_created}
        IN  SubSeq(rest, 1, Cardinality(newer)) \o <<m>>
                \o SubSeq(rest, Cardinality(newer) + 1, Len(rest))

\* an entry of self.tournaments_list: the TournamentMetadata read from a
\* file, of which the fields the program reads back are kept
list_entry(data) ==
    [id |-> data["metadata"].id,
     date_created |-> data["metadata"].date_created]

\* variant: the list is left in the order the files were read
load_tournaments_list_unsorted(dir, order) ==
    LET bad == {k \in 1..Len(order) : dir[order[k]] = Truncated}
    IN  IF bad = {}
            THEN [k \in 1..Len(order) |-> list_entry(dir[order[k]])]
            ELSE [k \in 1..((CHOOSE k \in bad : \A j \in bad : k <= j) - 1)
                    |-> list_entry(dir[order[k]])]

\* self.tournaments_list after load_tournaments_list read the files in the
\* given order: the first file that cannot be parsed ends the loop and
\* skips the sort
load_tournaments_list(dir, order) ==
    LET bad == {k \in 1..Len(order) : dir[order[k]] = Truncated}
    IN  IF bad = {}
            THEN sort_newest_first(
                    [k \in 1..Len(order) |-> list_entry(dir[order[k]])])
            ELSE [k \in 1..((CHOOSE k \in bad : \A j \in bad : k <= j) - 1)
                    |-> list_entry(dir[order[k]])]

\* variant: the file is removed and the list refreshed, the session is kept
delete_tournament_keeping_session(dir, g, b, tournament_id, order) ==
    LET left == [dir EXCEPT ![tournament_id] = NoFile]
    IN  [dir     |-> left,
         gui     |-> [g EXCEPT !.tournaments_list =
                            load_tournaments_list(left, order)],
         bracket |-> b]

\* delete_tournament of an identifier whose file exists: the file is
\* unlinked, the list is read again, and a session that had this tournament
\* open is emptied and sent to the Tournaments tab
delete_tournament(dir, g, b, tournament_id, order) ==
    LET left   == [dir EXCEPT ![tournament_id] = NoFile]
        listed == [g EXCEPT !.tournaments_list =
                        load_tournaments_list(left, order)]
    IN  IF g.current_tournament_id = tournament_id
        THEN [dir     |-> left,
              gui     |-> [listed EXCEPT !.current_tournament_id = None,
                                         !.current_metadata = NoMetadata,
                                         !.editing_players = <<>>,
                                         !.shared = FALSE,
                                         !.active_tab = "Tournaments"],
              bracket |-> NoBracket]
        ELSE [dir |-> left, gui |-> listed, bracket |-> b]

\* _initialize_tour_steps: the tab of each step of the guided tour, in order
tour_steps ==
    <<"Tournaments", "Tournaments", "Tournaments", "Current Tournament",
      "Player List", "Player List", "Bracket", "Bracket", "Final Results",
      "Current Tournament", "Current Tournament", "Bracket", "Tournaments">>

start_tour(g) ==
    LET started == [g EXCEPT !.tour_active = TRUE, !.tour_step_index = 0]
    IN  IF Len(tour_steps) > 0
            THEN [started EXCEPT !.active_tab = tour_steps[1]]
            ELSE started

end_tour(g) == [g EXCEPT !.tour_active = FALSE, !.tour_step_index = 0]

\* variant: the last step is a dead end
next_tour_step_stops_at_last(g) ==
    IF g.tour_step_index < Len(tour_steps) - 1
        THEN [g EXCEPT !.tour_step_index = @ + 1,
                       !.active_tab = tour_steps[g.tour_step_index + 2]]
        ELSE g

next_tour_step(g) ==
    IF g.tour_step_index < Len(tour_steps) - 1
        THEN [g EXCEPT !.tour_step_index = @ + 1,
                       !.active_tab = tour_steps[g.tour_step_index + 2]]
        ELSE end_tour(g)

\* variant: the index is lowered whatever it is
prev_tour_step_unguarded(g) ==
    [g EXCEPT !.tour_step_index = @ - 1,
              !.active_tab = IF g.tour_step_index >= 1
                                THEN tour_steps[g.tour_step_index]
                                ELSE tour_steps[Len(tour_steps)]]

prev_tour_step(g) ==
    IF g.tour_step_index > 0
        THEN [g EXCEPT !.tour_step_index = @ - 1,
                       !.active_tab = tour_steps[g.tour_step_index]]
        ELSE g

\* variant: the record is written beside the file and moved over it only
\* when complete, so that an interrupted write leaves the file as it was
interrupted_save_keeping_old(dir, g) == dir

\* the directory after a save_current_tournament whose write was cut short:
\* open(filepath, 'w') has emptied the file and json.dump did not finish
interrupted_save(dir, g) ==
    [dir EXCEPT ![g.current_tournament_id] = Truncated]

\* variant: a match with both players, decided or not
declarable_ignoring_winner(match) ==
    /\ Truthy(match.player1)
    /\ Truthy(match.player2)

\* a match the Bracket tab lets the user select and decide
declarable(match) ==
    /\ ~Truthy(match.winner)
    /\ Truthy(match.player1)
    /\ Truthy(match.player2)

(* ------------------------------------------------------------------ *)
(* State machine: one bracket object and its callers                   *)
(* ------------------------------------------------------------------ *)

VARIABLES
    bracket,          \* the TournamentBracket object (NoBracket: none)
    last,             \* the most recent call and what it returned or raised
    gui,              \* the attributes of the TournamentBracketGUI object
    tournaments_dir,  \* the content of <id>.json for each identifier
    uuids_issued      \* how many identifiers uuid4 has handed out

vars == <<bracket, last, gui, tournaments_dir, uuids_issued>>

\* the variables a bare bracket object does not touch
no_session ==
    /\ gui = new_gui
    /\ tournaments_dir = <<>>
    /\ uuids_issued = 0

\* a call and its outcome: "ok", the exception raised, or the value returned
Call(op, res) == [op |-> op, result |-> res]

\* arguments a caller may pass to set_match_winner
RoundArgs(b) == 0..(b.num_rounds + 1)

IndexArgs(b, r) ==
    IF r \in 1..b.num_rounds
        THEN (-(Len(b.matches[r]) + 1))..Len(b.matches[r])
        ELSE {0}

Init ==
    /\ bracket \in {TournamentBracket(ps) : ps \in ParticipantLists}
    /\ last = Call("__init__", "ok")
    /\ no_session

SetMatchWinner ==
    \E r \in RoundArgs(bracket) :
      \E i \in IndexArgs(bracket, r) :
        \E w \in WinnerArgs :
            /\ bracket' = set_match_winner(bracket, r, i, w)
            /\ last' = Call("set_match_winner",
                            set_match_winner_result(bracket, r, i, w))
            /\ UNCHANGED <<gui, tournaments_dir, uuids_issued>>

GetChampion ==
    /\ last' = Call("get_champion", get_champion(bracket))
    /\ UNCHANGED <<bracket, gui, tournaments_dir, uuids_issued>>

Next == SetMatchWinner \/ GetChampion

Spec == Init /\ [][Next]_vars

\* construction alone, over longer participant lists
InitBuild ==
    /\ bracket \in {TournamentBracket(ps) : ps \in BuildLists}
    /\ last = Call("__init__", "ok")
    /\ no_session

\* declarations only, with any arguments
SpecDeclare == Init /\ [][SetMatchWinner]_vars

\* longest participant list of the brackets on which pairs of calls are
\* compared
MaxCommutePlayers == 4

InitCommute ==
    /\ bracket \in {TournamentBracket(ps) :
                        ps \in {l \in ParticipantLists :
                                    Len(l) <= MaxCommutePlayers}}
    /\ last = Call("__init__", "ok")
    /\ no_session

\* declarations only, on the shorter participant lists
SpecCommute == InitCommute /\ [][SetMatchWinner]_vars

NextBuild == GetChampion

SpecBuild == InitBuild /\ [][NextBuild]_vars

(* ------------------------------------------------------------------ *)
(* State machine: one TournamentBracketGUI session over the directory         *)
(* ------------------------------------------------------------------ *)

\* names given to create_new_tournament
TournamentNames == {"Cup"}

\* variant: every position draws from the whole list independently
Shuffles_with_replacement(list) ==
    {[k \in 1..Len(list) |-> list[p[k]]] :
        p \in [1..Len(list) -> 1..Len(list)]}

\* the orders random.shuffle may leave a list in
Shuffles(list) ==
    {[k \in 1..Len(list) |-> list[p[k]]] :
        p \in {q \in [1..Len(list) -> 1..Len(list)] :
                \A j, k \in 1..Len(list) : j # k => q[j] # q[k]}}

\* the session after the user made a tab the active one: a click on a tab
\* other than the active one clears the selection (_handle_tab_click)
open_tab(g, tab) ==
    IF g.active_tab = tab THEN g
    ELSE [g EXCEPT !.active_tab = tab, !.selected_match = NoSelection]

\* list.pop(i) for 0 <= i < len(list)
Pop(list, i) == SubSeq(list, 1, i) \o SubSeq(list, i + 2, Len(list))

\* the call is recorded when it changed the session or the directory; a
\* call that changes nothing is a stuttering step
Done(op, res) ==
    last' = IF <<bracket', gui', tournaments_dir'>> =
                    <<bracket, gui, tournaments_dir>>
                THEN last ELSE Call(op, res)

SessionInit ==
    /\ bracket = NoBracket
    /\ last = Call("__init__", "ok")
    /\ gui = new_gui
    /\ tournaments_dir = [id \in {TournamentIds[k] : k \in 1..Len(TournamentIds)}
                            |-> NoFile]
    /\ uuids_issued = 0

CreateNewTournament(ids) ==
    /\ uuids_issued < Len(ids)
    /\ \E name \in TournamentNames :
        LET tournament_id == ids[uuids_issued + 1]
            metadata == TournamentMetadata(tournament_id, name, "TBD",
                            "2026-01-01", "12:00", uuids_issued + 1)
            g == [gui EXCEPT !.current_tournament_id = tournament_id,
                             !.current_metadata = metadata,
                             !.editing_players = <<>>,
                             !.shared = FALSE,
                             !.selected_match = NoSelection]
        IN  /\ tournaments_dir' =
                    save_current_tournament(tournaments_dir, g, NoBracket)
            /\ gui' = [g EXCEPT !.active_tab = "Current Tournament"]
            /\ bracket' = NoBracket
    /\ uuids_issued' = uuids_issued + 1
    /\ Done("create_new_tournament", "ok")

\* an input box was clicked, a text typed, and the edit committed by Return
\* or by a click outside the boxes
CommitFieldEdit ==
    /\ gui.current_metadata # NoMetadata
    /\ \E field \in EditableFields : \E text \in Texts :
        LET g == [open_tab(gui, "Current Tournament") EXCEPT
                    !.current_metadata[field] = text]
        IN  /\ gui' = g
            /\ tournaments_dir' =
                    save_current_tournament(tournaments_dir, g, bracket)
    /\ UNCHANGED <<bracket, uuids_issued>>
    /\ Done("commit_field", "ok")

AddPlayer(names, max_players) ==
    /\ Len(gui.editing_players) <
            (IF gui.current_tournament_id = None THEN MaxUnsavedPlayers
                                                 ELSE max_players)
    /\ \E name \in names :
        LET players == Append(gui.editing_players, name)
            g == [open_tab(gui, "Player List") EXCEPT
                    !.editing_players = players]
            b == bracket_seeing(gui, bracket, players)
        IN  /\ gui' = g
            /\ bracket' = b
            /\ tournaments_dir' = save_current_tournament(tournaments_dir, g, b)
    /\ Done("add_player", "ok")
    /\ UNCHANGED uuids_issued

RemovePlayer ==
    /\ \E i \in 0..(Len(gui.editing_players) - 1) :
        LET players == Pop(gui.editing_players, i)
            g == [open_tab(gui, "Player List") EXCEPT
                    !.editing_players = players]
            b == bracket_seeing(gui, bracket, players)
        IN  /\ gui' = g
            /\ bracket' = b
            /\ tournaments_dir' = save_current_tournament(tournaments_dir, g, b)
    /\ Done("remove_player", "ok")
    /\ UNCHANGED uuids_issued

GenerateBracket ==
    /\ IF Len(gui.editing_players) > 0
        THEN
            LET b == TournamentBracket(gui.editing_players)
                g == [gui EXCEPT !.shared = TRUE,
                                 !.selected_match = NoSelection]
            IN  /\ bracket' = b
                /\ tournaments_dir' =
                        save_current_tournament(tournaments_dir, g, b)
                /\ gui' = [g EXCEPT !.active_tab = "Bracket"]
                /\ Done("generate_bracket", "ok")
        ELSE
            /\ UNCHANGED <<bracket, gui, tournaments_dir>>
            /\ Done("generate_bracket", "nothing")
    /\ UNCHANGED uuids_issued

ResetTournament ==
    /\ IF Len(gui.editing_players) > 0
        THEN
            LET b == TournamentBracket(gui.editing_players)
                g == [gui EXCEPT !.shared = TRUE,
                                 !.selected_match = NoSelection]
            IN  /\ bracket' = b
                /\ gui' = g
                /\ tournaments_dir' =
                        save_current_tournament(tournaments_dir, g, b)
                /\ Done("reset_tournament", "ok")
        ELSE
            /\ UNCHANGED <<bracket, gui, tournaments_dir>>
            /\ Done("reset_tournament", "nothing")
    /\ UNCHANGED uuids_issued

ReshuffleTournament ==
    /\ IF Len(gui.editing_players) > 0
        THEN
            \E shuffled \in Shuffles(gui.editing_players) :
                LET b == TournamentBracket(shuffled)
                    g == [gui EXCEPT !.editing_players = shuffled,
                                     !.shared = TRUE,
                                     !.selected_match = NoSelection]
                IN  /\ bracket' = b
                    /\ gui' = g
                    /\ tournaments_dir' =
                            save_current_tournament(tournaments_dir, g, b)
                    /\ Done("reshuffle_tournament", "ok")
        ELSE
            /\ UNCHANGED <<bracket, gui, tournaments_dir>>
            /\ Done("reshuffle_tournament", "nothing")
    /\ UNCHANGED uuids_issued

\* a click inside the box of match (round_num, idx) on the Bracket tab, in
\* its upper (1) or lower (2) half
ClickMatch ==
    /\ bracket # NoBracket
    /\ \E round_num \in 1..Len(bracket.matches) :
        \E idx \in 0..(Len(bracket.matches[round_num]) - 1) :
          \E half \in {1, 2} :
            LET tab   == open_tab(gui, "Bracket")
                sel   == tab.selected_match
                match == bracket.matches[round_num][idx + 1]
            IN  IF sel # NoSelection
                   /\ ~(/\ sel[1] <= Len(bracket.matches)
                        /\ sel[2] < Len(bracket.matches[sel[1]]))
                    THEN
                        /\ gui' = tab
                        /\ UNCHANGED <<bracket, tournaments_dir>>
                        /\ last' = Call("click_match", "IndexError")
                ELSE IF sel = <<round_num, idx>> /\ declarable(match)
                    THEN
                        LET b == set_match_winner(bracket, round_num, idx,
                                    IF half = 1 THEN match.player1
                                                ELSE match.player2)
                            g == [tab EXCEPT !.selected_match = NoSelection]
                        IN  /\ bracket' = b
                            /\ gui' = g
                            /\ tournaments_dir' =
                                save_current_tournament(tournaments_dir, g, b)
                            /\ Done("click_match", "declared")
                ELSE IF declarable(match)
                    THEN
                        /\ gui' = [tab EXCEPT
                                    !.selected_match = <<round_num, idx>>]
                        /\ UNCHANGED <<bracket, tournaments_dir>>
                        /\ Done("click_match", "selected")
                ELSE
                    /\ gui' = tab
                    /\ UNCHANGED <<bracket, tournaments_dir>>
                    /\ Done("click_match", "nothing")
    /\ UNCHANGED uuids_issued

SaveCurrentTournament ==
    /\ tournaments_dir' = save_current_tournament(tournaments_dir, gui, bracket)
    /\ UNCHANGED <<bracket, gui, uuids_issued>>
    /\ Done("save_current_tournament", "ok")

\* the write raises after open(filepath, 'w') emptied the file; the
\* exception is caught and printed
SaveCurrentTournamentFails ==
    /\ gui.current_tournament_id # None
    /\ gui.current_metadata # NoMetadata
    /\ tournaments_dir' = interrupted_save(tournaments_dir, gui)
    /\ last' = Call("save_current_tournament", "Error saving tournament")
    /\ UNCHANGED <<bracket, gui, uuids_issued>>

LoadTournament ==
    /\ \E tournament_id \in DOMAIN tournaments_dir :
        LET loaded == load_tournament(tournaments_dir, gui, bracket,
                                      tournament_id)
        IN  /\ gui' = loaded.gui
            /\ bracket' = loaded.bracket
            /\ last' = IF loaded.printed = "nothing" THEN last
                       ELSE Call("load_tournament", loaded.printed)
    /\ UNCHANGED <<tournaments_dir, uuids_issued>>

\* a click on an entry of the list of the Tournaments tab, which the tour
\* overlay lets through only when no tour is shown
ClickTournament ==
    /\ gui.active_tab = "Tournaments"
    /\ ~gui.tour_active
    /\ \E k \in 1..Len(gui.tournaments_list) :
        LET loaded == load_tournament(tournaments_dir, gui, bracket,
                                      gui.tournaments_list[k].id)
        IN  /\ gui' = loaded.gui
            /\ bracket' = loaded.bracket
            /\ last' = IF loaded.printed = "nothing" THEN last
                       ELSE Call("load_tournament", loaded.printed)
    /\ UNCHANGED <<tournaments_dir, uuids_issued>>

LoadTournamentsList ==
    /\ \E order \in GlobOrders(tournaments_dir) :
        gui' = [gui EXCEPT !.tournaments_list =
                    load_tournaments_list(tournaments_dir, order)]
    /\ UNCHANGED <<bracket, tournaments_dir, uuids_issued>>
    /\ Done("load_tournaments_list", "ok")

DeleteTournament ==
    /\ \E tournament_id \in DOMAIN tournaments_dir :
        IF tournaments_dir[tournament_id] = NoFile
            THEN
                /\ UNCHANGED <<bracket, gui, tournaments_dir>>
                /\ Done("delete_tournament", "nothing")
            ELSE
                \E order \in GlobOrders(
                        [tournaments_dir EXCEPT ![tournament_id] = NoFile]) :
                    LET deleted == delete_tournament(tournaments_dir, gui,
                                        bracket, tournament_id, order)
                    IN  /\ tournaments_dir' = deleted.dir
                        /\ gui' = deleted.gui
                        /\ bracket' = deleted.bracket
                        /\ last' = Call("delete_tournament", "ok")
    /\ UNCHANGED uuids_issued

\* the window is closed, which saves the current tournament, and the
\* program is started again
Restart ==
    /\ LET dir == save_current_tournament(tournaments_dir, gui, bracket)
       IN  /\ tournaments_dir' = dir
           /\ \E order \in GlobOrders(dir) :
                gui' = [new_gui EXCEPT !.tournaments_list =
                            load_tournaments_list(dir, order)]
    /\ bracket' = NoBracket
    /\ Done("__init__", "ok")
    /\ UNCHANGED uuids_issued

StartTour ==
    /\ gui' = start_tour(gui)
    /\ UNCHANGED <<bracket, tournaments_dir, uuids_issued>>
    /\ Done("start_tour", "ok")

NextTourStep ==
    /\ gui' = next_tour_step(gui)
    /\ UNCHANGED <<bracket, tournaments_dir, uuids_issued>>
    /\ Done("next_tour_step",
            IF gui.tour_step_index < Len(tour_steps) - 1 THEN "step"
                                                         ELSE "ended")

PrevTourStep ==
    /\ gui' = prev_tour_step(gui)
    /\ UNCHANGED <<bracket, tournaments_dir, uuids_issued>>
    /\ Done("prev_tour_step", "ok")

EndTour ==
    /\ gui' = end_tour(gui)
    /\ UNCHANGED <<bracket, tournaments_dir, uuids_issued>>
    /\ Done("end_tour", "ok")

SessionNext(ids, names, max_players) ==
    \/ CreateNewTournament(ids)
    \/ CommitFieldEdit
    \/ AddPlayer(names, max_players)
    \/ RemovePlayer
    \/ GenerateBracket
    \/ ResetTournament
    \/ ReshuffleTournament
    \/ ClickMatch
    \/ SaveCurrentTournament
    \/ LoadTournament
    \/ LoadTournamentsList
    \/ DeleteTournament
    \/ Restart

\* one tournament with a full player list, while every write completes
SpecSession ==
    SessionInit /\ [][SessionNext(OneTournament, TypedNames, MaxSessionPlayers)]_vars

\* several tournaments with short player lists, while every write completes
SpecStore ==
    SessionInit /\ [][SessionNext(TournamentIds, TypedNames, MaxStorePlayers)]_vars

FaultyNext ==
    \/ SessionNext(OneTournament, TypedNames, MaxSessionPlayers)
    \/ SaveCurrentTournamentFails

\* one tournament when a write to the directory may fail part-way
SpecFaulty == SessionInit /\ [][FaultyNext]_vars

StoreFaultyNext ==
    \/ SessionNext(TournamentIds, TypedNames, MaxStorePlayers)
    \/ SaveCurrentTournamentFails

\* several tournaments when a write to the directory may fail part-way
SpecStoreFaulty == SessionInit /\ [][StoreFaultyNext]_vars

TourNext ==
    \/ StartTour
    \/ NextTourStep
    \/ PrevTourStep
    \/ EndTour
    \/ CreateNewTournament(OneTournament)
    \/ AddPlayer(TypedNames, MaxStorePlayers)

\* the guided tour, taken at any time of a session with one tournament
SpecTour == SessionInit /\ [][TourNext]_vars

\* longest player list of the sessions that type two different names
MaxShufflePlayers == 3

ShuffleNext ==
    \/ CreateNewTournament(OneTournament)
    \/ AddPlayer(Names, MaxShufflePlayers)
    \/ RemovePlayer
    \/ GenerateBracket
    \/ ResetTournament
    \/ ReshuffleTournament
    \/ ClickMatch

\* one tournament whose players have different names, played and reshuffled
SpecShuffle == SessionInit /\ [][ShuffleNext]_vars

ReloadNext ==
    \/ CreateNewTournament(TournamentIds)
    \/ AddPlayer(TypedNames, MaxSessionPlayers)
    \/ RemovePlayer
    \/ GenerateBracket
    \/ LoadTournament

\* several tournaments with full player lists, edited, generated and loaded
SpecReload == SessionInit /\ [][ReloadNext]_vars

\* longest player list of the sessions that take the tour between clicks
MaxTourPlayers == 2

TourSessionNext ==
    \/ CreateNewTournament(TournamentIds)
    \/ AddPlayer(TypedNames, MaxTourPlayers)
    \/ GenerateBracket
    \/ ClickMatch
    \/ StartTour
    \/ EndTour
    \/ ClickTournament
    \/ Restart

\* several tournaments, opened from the list, played, with the tour started
\* and left by key at any time
SpecTourSession == SessionInit /\ [][TourSessionNext]_vars

InterruptNext ==
    \/ CreateNewTournament(TournamentIds)
    \/ AddPlayer(TypedNames, MaxStorePlayers)
    \/ GenerateBracket
    \/ SaveCurrentTournament
    \/ SaveCurrentTournamentFails
    \/ LoadTournament

\* several tournaments, saved and loaded, when a write may be cut short
SpecInterrupt == SessionInit /\ [][InterruptNext]_vars

(* ------------------------------------------------------------------ *)
(* Properties                                                          *)
(* ------------------------------------------------------------------ *)

\* the single match of the final round
FinalMatch == bracket.matches[bracket.num_rounds][1]

\* index arguments examined for a round that does not exist: every index
\* that is valid in some round, and one more at either end
AnyIndexArgs ==
    (-(bracket.bracket_size \div 2 + 1))..(bracket.bracket_size \div 2)

\* C1: after a successful set_match_winner(r, i, w) with r < num_rounds, the
\* round-(r+1) match at index floor(i/2) has player1 = w when i is even and
\* player2 = w when i is odd, for every round r and every valid index i.
C1_WinnerPropagates ==
    \A r \in 1..(bracket.num_rounds - 1) :
      \A i \in 0..(Len(bracket.matches[r]) - 1) :
        \A w \in WinnerArgs :
            set_match_winner_result(bracket, r, i, w) = "ok" =>
                LET after == set_match_winner(bracket, r, i, w)
                    m     == after.matches[r + 1][(i \div 2) + 1]
                IN  IF i % 2 = 0 THEN m.player1 = w ELSE m.player2 = w

\* a three-round bracket in which winners were propagated from even and odd
\* indexes of round 1 and from round 2 into the final
C1_Witness ==
    /\ last = Call("set_match_winner", "ok")
    /\ bracket.num_rounds = 3
    /\ bracket.matches[2][1].player2 \in Names
    /\ bracket.matches[2][1].player2 = bracket.matches[1][2].winner
    /\ bracket.matches[2][2].player1 \in Names
    /\ bracket.matches[2][2].player1 = bracket.matches[1][3].winner
    /\ bracket.matches[3][1].player2 \in Names
    /\ bracket.matches[3][1].player2 = bracket.matches[2][2].winner

\* C2: set_match_winner(r, i, w) with w equal to neither player1 nor player2
\* of the target match raises the invalid-winner error and leaves the whole
\* bracket unchanged; a real name declared on a match with two empty slots
\* is rejected in particular.
C2_InvalidWinnerRejected ==
    \A r \in 1..bracket.num_rounds :
      \A i \in IndexArgs(bracket, r) :
        \A w \in WinnerArgs :
            (/\ PyValid(bracket.matches[r], i)
             /\ w # PyGet(bracket.matches[r], i).player1
             /\ w # PyGet(bracket.matches[r], i).player2) =>
                /\ set_match_winner_result(bracket, r, i, w) = "InvalidWinner"
                /\ set_match_winner(bracket, r, i, w) = bracket

\* an invalid winner was just rejected in a bracket that holds a match with
\* two empty slots and a match that already has a declared winner
C2_Witness ==
    /\ last = Call("set_match_winner", "InvalidWinner")
    /\ bracket.num_rounds >= 2
    /\ bracket.matches[2][1].player1 \in Names
    /\ \E r \in 1..bracket.num_rounds :
         \E k \in 1..Len(bracket.matches[r]) :
            /\ bracket.matches[r][k].player1 = None
            /\ bracket.matches[r][k].player2 = None

\* C3: set_match_winner with round_num < 1 or round_num > num_rounds raises
\* the invalid-round error whatever match_index and winner are, and changes
\* nothing in the bracket.
C3_InvalidRoundRejected ==
    \A r \in {-1, 0, bracket.num_rounds + 1, bracket.num_rounds + 2} :
      \A i \in AnyIndexArgs :
        \A w \in WinnerArgs :
            /\ set_match_winner_result(bracket, r, i, w) = "InvalidRound"
            /\ set_match_winner(bracket, r, i, w) = bracket

\* an invalid round was just rejected in a bracket with declared winners
C3_Witness ==
    /\ last = Call("set_match_winner", "InvalidRound")
    /\ bracket.num_rounds >= 2
    /\ bracket.matches[2][1].player1 \in Names

\* C4: get_champion returns None exactly when the single match of the final
\* round has no winner and otherwise exactly that winner; it never raises
\* and never changes the bracket.
C4_ChampionIsFinalWinner ==
    /\ [](/\ bracket.num_rounds >= 1
          /\ Len(bracket.matches) = bracket.num_rounds
          /\ Len(bracket.matches[bracket.num_rounds]) = 1
          /\ get_champion(bracket) # "IndexError"
          /\ get_champion(bracket) = FinalMatch.winner
          /\ (last.op = "get_champion" => last.result = FinalMatch.winner))
    /\ [][last'.op = "get_champion" =>
            /\ bracket' = bracket
            /\ last'.result = FinalMatch.winner]_vars

\* get_champion returned a name in a three-round bracket
C4_Witness ==
    /\ last.op = "get_champion"
    /\ last.result \in Names
    /\ bracket.num_rounds = 3
    /\ FinalMatch.winner = last.result

\* C5: for a participant list of length n >= 2, num_rounds is the smallest r
\* with 2^r >= n, bracket_size = 2^num_rounds, there are exactly num_rounds
\* rounds, round k holds bracket_size / 2^k matches, and the final round
\* holds exactly one match.
C5_Sizing ==
    bracket.num_participants >= 2 =>
        /\ bracket.num_participants = Len(bracket.participants)
        /\ Pow2(bracket.num_rounds) >= bracket.num_participants
        /\ Pow2(bracket.num_rounds - 1) < bracket.num_participants
        /\ bracket.bracket_size = Pow2(bracket.num_rounds)
        /\ Len(bracket.matches) = bracket.num_rounds
        /\ \A k \in 1..bracket.num_rounds :
              Len(bracket.matches[k]) * Pow2(k) = bracket.bracket_size
        /\ Len(bracket.matches[bracket.num_rounds]) = 1

\* a bracket built from a list whose length is not a power of two
C5_Witness ==
    /\ last = Call("__init__", "ok")
    /\ bracket.num_participants = 9
    /\ bracket.num_rounds = 4
    /\ bracket.bracket_size = 16
    /\ Len(bracket.matches[1]) = 8
    /\ Len(bracket.matches[4]) = 1

\* C6: construction succeeds for every participant count (every slot read
\* while pairing lies inside the seeded list); for n = 0 and n = 1 it yields
\* num_rounds = 1 and bracket_size = 2, one round holding one match.
C6_EmptyAndSolo ==
    /\ Len(bracket.seeded_participants) = bracket.bracket_size
    /\ bracket.bracket_size >= bracket.num_participants
    /\ bracket.num_participants <= 1 =>
        /\ bracket.num_rounds = 1
        /\ bracket.bracket_size = 2
        /\ Len(bracket.matches) = 1
        /\ Len(bracket.matches[1]) = 1

\* a bracket built from a single participant
C6_Witness ==
    /\ last = Call("__init__", "ok")
    /\ bracket.num_participants = 1
    /\ bracket.matches[1][1].player1 \in Names
    /\ bracket.matches[1][1].player2 = None

\* C7: right after construction every round-1 match in which exactly one
\* slot holds a participant has that participant as its winner.
C7_ByeAutoResolved ==
    \A k \in 1..Len(bracket.matches[1]) :
        LET m == bracket.matches[1][k]
        IN  /\ (m.player1 # None /\ m.player2 = None) => m.winner = m.player1
            /\ (m.player2 # None /\ m.player1 = None) => m.winner = m.player2

\* a freshly built bracket of several rounds with a bye match
C7_Witness ==
    /\ last = Call("__init__", "ok")
    /\ bracket.num_rounds >= 2
    /\ \E k \in 1..Len(bracket.matches[1]) :
        /\ bracket.matches[1][k].player1 \in Names
        /\ bracket.matches[1][k].player2 = None
        /\ bracket.matches[1][k].winner = bracket.matches[1][k].player1

\* C8: right after construction every match of rounds 2..num_rounds has two
\* empty slots and no winner, also when round 1 holds bye matches whose
\* winner is already set.
C8_LaterRoundsEmpty ==
    \A r \in 2..bracket.num_rounds :
        \A k \in 1..Len(bracket.matches[r]) :
            /\ bracket.matches[r][k].player1 = None
            /\ bracket.matches[r][k].player2 = None
            /\ bracket.matches[r][k].winner = None

\* a freshly built bracket whose round-1 bye winner is absent from round 2
C8_Witness ==
    /\ last = Call("__init__", "ok")
    /\ bracket.num_rounds >= 2
    /\ \E k \in 1..Len(bracket.matches[1]) :
        /\ bracket.matches[1][k].player2 = None
        /\ bracket.matches[1][k].winner \in Names
        /\ bracket.matches[2][(k + 1) \div 2].player1 = None
        /\ bracket.matches[2][(k + 1) \div 2].player2 = None

\* C9: in every state reached by set_match_winner calls, a match whose
\* winner is set has that winner in player1 or player2.
C9_WinnerIsInMatch ==
    \A r \in 1..bracket.num_rounds :
        \A k \in 1..Len(bracket.matches[r]) :
            bracket.matches[r][k].winner # None =>
                bracket.matches[r][k].winner \in
                    {bracket.matches[r][k].player1, bracket.matches[r][k].player2}

\* C10: for each round-(k+1) match at index i, a non-empty player1 is the
\* current winner of the round-k match at index 2i and a non-empty player2
\* is the current winner of the round-k match at index 2i+1.
C10_SlotProvenance ==
    \A r \in 1..(bracket.num_rounds - 1) :
        \A q \in 1..Len(bracket.matches[r + 1]) :
            LET m == bracket.matches[r + 1][q]
            IN  /\ m.player1 # None =>
                    m.player1 = bracket.matches[r][2 * q - 1].winner
                /\ m.player2 # None =>
                    m.player2 = bracket.matches[r][2 * q].winner

\* a three-round bracket with both final slots filled in which a round-1
\* match was declared again after its round-2 match had been decided
C10_Witness ==
    /\ last = Call("set_match_winner", "ok")
    /\ bracket.num_rounds = 3
    /\ bracket.matches[3][1].player1 \in Names
    /\ bracket.matches[3][1].player2 \in Names
    /\ bracket.matches[2][1].winner \in Names
    /\ bracket.matches[2][1].player1 \in Names
    /\ bracket.matches[2][1].player1 # bracket.matches[2][1].winner
    /\ bracket.matches[2][1].player2 # bracket.matches[2][1].winner

\* C11: a successful set_match_winner(r, i, w) changes only the winner of the
\* declared match and, when r < num_rounds, the one slot of the round-(r+1)
\* match floor(i/2) that i's parity selects; that match's other slot and
\* winner, every other match, the participant list, num_rounds,
\* bracket_size and the number of matches per round stay as they were, and
\* for r = num_rounds no other match changes.
C11_DeclareFrame ==
    \A r \in 1..bracket.num_rounds :
      \A i \in 0..(Len(bracket.matches[r]) - 1) :
        \A w \in WinnerArgs :
            set_match_winner_result(bracket, r, i, w) = "ok" =>
                LET after == set_match_winner(bracket, r, i, w)
                    nr    == r + 1
                    nk    == (i \div 2) + 1
                IN  /\ [after EXCEPT !.matches = bracket.matches] = bracket
                    /\ Len(after.matches) = Len(bracket.matches)
                    /\ \A rr \in 1..Len(bracket.matches) :
                          /\ Len(after.matches[rr]) = Len(bracket.matches[rr])
                          /\ \A k \in 1..Len(bracket.matches[rr]) :
                                LET old == bracket.matches[rr][k]
                                    new == after.matches[rr][k]
                                IN  IF rr = r /\ k = i + 1
                                        THEN [new EXCEPT !.winner = old.winner] = old
                                    ELSE IF rr = nr /\ k = nk /\ i % 2 = 0
                                        THEN [new EXCEPT !.player1 = old.player1] = old
                                    ELSE IF rr = nr /\ k = nk
                                        THEN [new EXCEPT !.player2 = old.player2] = old
                                    ELSE new = old

\* a winner was declared in round 2 of a three-round bracket whose final
\* already held a propagated player and whose round-2 match had a winner
C11_Witness ==
    /\ last = Call("set_match_winner", "ok")
    /\ bracket.num_rounds = 3
    /\ bracket.matches[2][1].winner \in Names
    /\ bracket.matches[2][2].winner \in Names
    /\ bracket.matches[3][1].player1 = bracket.matches[2][1].winner
    /\ bracket.matches[3][1].player2 = bracket.matches[2][2].winner
    /\ bracket.matches[3][1].winner \in Names

\* C12: for every bracket reached by construction and set_match_winner
\* calls, from_dict(to_dict(bracket)) has the same player1, player2 and
\* winner as the bracket at every round and index.
C12_RoundTrip ==
    LET copy == from_dict(to_dict(bracket))
    IN  /\ from_dict_in_range(to_dict(bracket))
        /\ Len(copy.matches) = Len(bracket.matches)
        /\ \A r \in 1..Len(bracket.matches) :
              /\ Len(copy.matches[r]) = Len(bracket.matches[r])
              /\ \A k \in 1..Len(bracket.matches[r]) :
                    /\ copy.matches[r][k].player1 = bracket.matches[r][k].player1
                    /\ copy.matches[r][k].player2 = bracket.matches[r][k].player2
                    /\ copy.matches[r][k].winner = bracket.matches[r][k].winner

\* a played three-round bracket with a bye in round 1 and a decided final
C12_Witness ==
    /\ last = Call("set_match_winner", "ok")
    /\ bracket.num_rounds = 3
    /\ bracket.num_participants = 5
    /\ bracket.matches[1][3].player2 = None
    /\ bracket.matches[1][3].winner \in Names
    /\ bracket.matches[2][1].winner \in Names
    /\ bracket.matches[3][1].winner \in Names

\* the record save_current_tournament writes for the session as it is now
Serialized ==
    [file         |-> "json",
     metadata     |-> gui.current_metadata,
     participants |-> gui.editing_players,
     bracket      |-> IF bracket = NoBracket THEN NoBracket
                      ELSE [participants |-> bracket.participants,
                            matches      |-> bracket.matches]]

\* the file of the current tournament
CurrentFile == tournaments_dir[gui.current_tournament_id]

\* C13: for every bracket the session holds, also after players were added
\* or removed once the bracket was generated, from_dict(to_dict(bracket))
\* has the same num_rounds, bracket_size, number of matches per round and
\* match identifiers as the bracket.
C13_StructuralRoundTrip ==
    bracket # NoBracket =>
        /\ from_dict_in_range(to_dict(bracket))
        /\ LET copy == from_dict(to_dict(bracket))
           IN  /\ copy.num_rounds = bracket.num_rounds
               /\ copy.bracket_size = bracket.bracket_size
               /\ Len(copy.matches) = Len(bracket.matches)
               /\ \A r \in 1..Len(bracket.matches) :
                    /\ Len(copy.matches[r]) = Len(bracket.matches[r])
                    /\ \A k \in 1..Len(bracket.matches[r]) :
                          copy.matches[r][k].match_id =
                              bracket.matches[r][k].match_id

\* C14: a step that adds or removes a player while the session holds a
\* bracket leaves that bracket (participant list, sizing fields, matches)
\* as it was.
C14_PlayerEditsKeepBracket ==
    [][(/\ last'.op \in {"add_player", "remove_player"}
        /\ gui'.editing_players # gui.editing_players
        /\ bracket # NoBracket) => bracket' = bracket]_vars

\* C15: right after load_tournament read the record of an identifier, the
\* session holds the saved metadata, the saved participant list in order,
\* and a bracket exactly when the record holds one.
C15_LoadRestoresSaved ==
    (/\ last.op = "load_tournament"
     /\ gui.current_tournament_id # None
     /\ CurrentFile.file = "json") =>
        /\ gui.current_metadata = CurrentFile.metadata
        /\ gui.editing_players = CurrentFile.participants
        /\ (bracket # NoBracket) <=> (CurrentFile.bracket # NoBracket)

C17_ListingComplete ==
    \A order \in GlobOrders(tournaments_dir) :
        LET list    == load_tournaments_list(tournaments_dir, order)
            records == {id \in DOMAIN tournaments_dir :
                            tournaments_dir[id].file = "json"}
        IN  /\ Len(list) = Cardinality(records)
            /\ {list[k].id : k \in 1..Len(list)} = records
            /\ \A j, k \in 1..Len(list) :
                    j < k => list[j].date_created >= list[k].date_created

\* C18: a create_new_tournament step writes one record under an identifier
\* that had no file, changes no other file, makes that identifier current
\* with the name, location, date and time given, an empty player list and
\* no bracket; a listing taken after the step is one entry longer than a
\* listing taken before it.
C18_Create ==
    [][uuids_issued' # uuids_issued =>
        LET id == gui'.current_tournament_id
        IN  /\ id # None
            /\ tournaments_dir[id] = NoFile
            /\ tournaments_dir'[id].file = "json"
            /\ \A other \in DOMAIN tournaments_dir \ {id} :
                    tournaments_dir'[other] = tournaments_dir[other]
            /\ gui'.current_metadata.id = id
            /\ gui'.current_metadata.name \in TournamentNames
            /\ gui'.current_metadata.location = "TBD"
            /\ gui'.current_metadata.date_scheduled = "2026-01-01"
            /\ gui'.current_metadata.time_scheduled = "12:00"
            /\ tournaments_dir'[id].metadata = gui'.current_metadata
            /\ gui'.editing_players = <<>>
            /\ tournaments_dir'[id].participants = <<>>
            /\ bracket' = NoBracket
            /\ tournaments_dir'[id].bracket = NoBracket
            /\ \A before \in GlobOrders(tournaments_dir) :
                 \A after \in GlobOrders(tournaments_dir') :
                    Len(load_tournaments_list(tournaments_dir', after)) =
                        Len(load_tournaments_list(tournaments_dir, before)) + 1
       ]_vars

\* a second tournament was just created while the first one, which has a
\* player and a bracket, is on file
C18_Witness ==
    /\ last = Call("create_new_tournament", "ok")
    /\ uuids_issued = 2
    /\ gui.current_tournament_id = "t2"
    /\ tournaments_dir["t1"].file = "json"
    /\ tournaments_dir["t1"].participants # <<>>
    /\ tournaments_dir["t1"].bracket # NoBracket
    /\ tournaments_dir["t2"].file = "json"

\* C19: a step that creates, edits or saves the current tournament changes
\* the file of no other identifier, and a load that succeeds leaves the
\* session with exactly what the file of the loaded identifier holds.
C19_Isolation ==
    /\ [](last = Call("load_tournament", "Loaded tournament") =>
            /\ CurrentFile.file = "json"
            /\ gui.current_metadata = CurrentFile.metadata
            /\ gui.editing_players = CurrentFile.participants
            /\ IF CurrentFile.bracket = NoBracket
                  THEN bracket = NoBracket
                  ELSE bracket = from_dict(CurrentFile.bracket))
    /\ [][\A id \in DOMAIN tournaments_dir :
            (/\ tournaments_dir'[id] # tournaments_dir[id]
             /\ tournaments_dir'[id] # NoFile) =>
                /\ id = gui'.current_tournament_id
                /\ uuids_issued' = uuids_issued =>
                        id = gui.current_tournament_id]_vars

\* the first tournament was loaded again after the second one was created
\* and edited; both are on file with different content
C19_Witness ==
    /\ last = Call("load_tournament", "Loaded tournament")
    /\ uuids_issued = 2
    /\ gui.current_tournament_id = "t1"
    /\ tournaments_dir["t2"].file = "json"
    /\ tournaments_dir["t2"].metadata.name = "Open"
    /\ tournaments_dir["t1"].metadata.name = "Cup"
    /\ tournaments_dir["t1"].participants # tournaments_dir["t2"].participants

\* the operations after which the current tournament is saved
AutoSaved ==
    {Call("create_new_tournament", "ok"), Call("commit_field", "ok"),
     Call("add_player", "ok"), Call("remove_player", "ok"),
     Call("generate_bracket", "ok"), Call("click_match", "declared"),
     Call("reset_tournament", "ok"), Call("reshuffle_tournament", "ok")}

\* C20: right after a create, a committed field edit, an added or removed
\* player, a generated bracket, a winner declared by click, a reset or a
\* reshuffle, the file of the current tournament holds the session's
\* metadata, player list and bracket.
C20_AutoSave ==
    (last \in AutoSaved /\ gui.current_tournament_id # None) =>
        CurrentFile = Serialized

\* a winner was just declared by click in a tournament whose name had been
\* edited, and the file shows both
C20_Witness ==
    /\ last = Call("click_match", "declared")
    /\ gui.current_tournament_id = "t1"
    /\ gui.current_metadata.name = "Open"
    /\ Len(gui.editing_players) = 3
    /\ bracket.matches[1][1].winner = "A"
    /\ CurrentFile.bracket.matches[1][1].winner = "A"
    /\ CurrentFile.bracket.matches[2][1].player1 = "A"

\* a step in which the named call changed the session or the directory
StepOf(op) ==
    /\ last'.op = op
    /\ <<bracket', gui', tournaments_dir'>> # <<bracket, gui, tournaments_dir>>

\* the bracket is as the constructor leaves it for the given players: they
\* fill round 1 in order, a round-1 match has a winner exactly when one of
\* its slots is empty and the other is not, later rounds are empty
FreshlyBuilt(b, players) ==
    /\ b.participants = players
    /\ \A k \in 1..Len(b.matches[1]) :
        LET m == b.matches[1][k]
        IN  /\ m.player1 = IF 2 * k - 1 <= Len(players)
                              THEN players[2 * k - 1] ELSE None
            /\ m.player2 = IF 2 * k <= Len(players)
                              THEN players[2 * k] ELSE None
            /\ m.winner = IF m.player1 # None /\ m.player2 = None
                              THEN m.player1
                          ELSE IF m.player2 # None /\ m.player1 = None
                              THEN m.player2
                          ELSE None
    /\ \A r \in 2..Len(b.matches) :
        \A k \in 1..Len(b.matches[r]) :
            /\ b.matches[r][k].player1 = None
            /\ b.matches[r][k].player2 = None
            /\ b.matches[r][k].winner = None

Count(list, x) == Cardinality({k \in 1..Len(list) : list[k] = x})

\* C22: a reshuffle_tournament step leaves a player list with the same names
\* in the same multiplicities as before, and a bracket that is the one the
\* constructor builds from the new order: no declared result is carried over.
C22_Reshuffle ==
    [][StepOf("reshuffle_tournament") =>
        /\ Len(gui'.editing_players) = Len(gui.editing_players)
        /\ \A x \in Names \cup {None} :
            Count(gui'.editing_players, x) = Count(gui.editing_players, x)
        /\ bracket' = TournamentBracket(gui'.editing_players)
        /\ FreshlyBuilt(bracket', gui'.editing_players)]_vars

\* a reshuffle has just produced the order B, A, A with a fresh bracket
C22_Witness ==
    /\ last = Call("reshuffle_tournament", "ok")
    /\ gui.editing_players = <<"B", "A", "A">>
    /\ bracket.matches[1][1].winner = None
    /\ bracket.matches[2][1].player1 = None

\* the identifiers create_new_tournament has handed out so far
Issued == {TournamentIds[k] : k \in 1..uuids_issued}

\* the identifiers shown in the list of the Tournaments tab
Listed == {gui.tournaments_list[k].id : k \in 1..Len(gui.tournaments_list)}

\* C23: a delete of an identifier whose record exists removes the record from
\* the directory and from the listing; a session that had it open is left
\* with no current tournament, no players and no bracket, any other session
\* keeps its tournament, players and bracket; and no later step brings the
\* record of a deleted identifier back into the directory or the listing.
C23_Delete ==
    [][\A id \in DOMAIN tournaments_dir :
        /\ (tournaments_dir[id] # NoFile /\ tournaments_dir'[id] = NoFile) =>
            /\ last' = Call("delete_tournament", "ok")
            /\ id \notin Listed'
            /\ IF gui.current_tournament_id = id
                THEN /\ gui'.current_tournament_id = None
                     /\ gui'.current_metadata = NoMetadata
                     /\ gui'.editing_players = <<>>
                     /\ bracket' = NoBracket
                ELSE /\ gui' = [gui EXCEPT
                                !.tournaments_list = gui'.tournaments_list]
                     /\ bracket' = bracket
        /\ (id \in Issued /\ tournaments_dir[id] = NoFile) =>
            /\ tournaments_dir'[id] = NoFile
            /\ id \notin Listed']_vars

\* the open tournament t1 has just been deleted while t2 stays on disk
C23_Witness ==
    /\ last = Call("delete_tournament", "ok")
    /\ uuids_issued = 2
    /\ tournaments_dir["t1"] = NoFile
    /\ tournaments_dir["t2"] # NoFile
    /\ gui.current_tournament_id = None
    /\ bracket = NoBracket
    /\ Listed = {"t2"}

\* C24 as stated: a bracket on which no winner was declared has no champion,
\* whatever the participant list.
C24_NoChampionAtStart == get_champion(bracket) = None

\* C24: a bracket on which no winner was declared has no champion when it
\* was built from no participant or from two or more; built from exactly one
\* participant, its only match is a bye and that participant is the champion
\* from the start.
C24_NoChampionUnlessSolo ==
    /\ get_champion(bracket) =
            IF bracket.num_participants = 1 THEN bracket.participants[1]
                                            ELSE None
    /\ last.op = "get_champion" => last.result = get_champion(bracket)

\* champion() was asked of a fresh three-player bracket, whose bye match has
\* a winner, and returned none
C24_Witness ==
    /\ last = Call("get_champion", None)
    /\ bracket.num_participants = 3
    /\ bracket.matches[1][2].winner = bracket.participants[3]

\* next_tour_step applied n times
RECURSIVE next_tour_steps(_, _)
next_tour_steps(g, n) ==
    IF n = 0 THEN g ELSE next_tour_steps(next_tour_step(g), n - 1)

\* C25: whatever tour calls were made, the step index is at least 0 and
\* below the number of tour steps; prev_tour_step leaves an index of 0 at 0
\* and lowers any other index by exactly one.
C25_TourIndexBounds ==
    /\ 0 <= gui.tour_step_index
    /\ gui.tour_step_index < Len(tour_steps)
    /\ prev_tour_step(gui).tour_step_index =
            IF gui.tour_step_index = 0 THEN 0 ELSE gui.tour_step_index - 1
    /\ last.op = "prev_tour_step" =>
            gui.tour_step_index < Len(tour_steps) - 1

\* prev_tour_step has just taken an active tour back to its sixth step
C25_Witness ==
    /\ last = Call("prev_tour_step", "ok")
    /\ gui.tour_active
    /\ gui.tour_step_index = 5
    /\ gui.active_tab = "Player List"

\* C26: start_tour gives an active tour at index 0; from there the k-th
\* next_tour_step gives index k while k is below the number of steps, and
\* the next_tour_step at the last step ends the tour; from any state
\* next_tour_step either raises the index by one or, at the last step,
\* leaves the tour inactive at index 0, so that enough of them always end
\* it; end_tour gives the inactive, index-0 state from any step.
C26_TourCompletes ==
    /\ start_tour(gui).tour_active
    /\ start_tour(gui).tour_step_index = 0
    /\ \A k \in 0..(Len(tour_steps) - 1) :
        /\ next_tour_steps(start_tour(gui), k).tour_active
        /\ next_tour_steps(start_tour(gui), k).tour_step_index = k
    /\ ~next_tour_steps(start_tour(gui), Len(tour_steps)).tour_active
    /\ next_tour_steps(start_tour(gui), Len(tour_steps)).tour_step_index = 0
    /\ IF gui.tour_step_index < Len(tour_steps) - 1
        THEN /\ next_tour_step(gui).tour_step_index = gui.tour_step_index + 1
             /\ next_tour_step(gui).tour_active = gui.tour_active
        ELSE /\ ~next_tour_step(gui).tour_active
             /\ next_tour_step(gui).tour_step_index = 0
    /\ ~next_tour_steps(gui, Len(tour_steps) - gui.tour_step_index).tour_active
    /\ ~end_tour(gui).tour_active
    /\ end_tour(gui).tour_step_index = 0
    /\ last = Call("next_tour_step", "ended") =>
            ~gui.tour_active /\ gui.tour_step_index = 0
    /\ last = Call("end_tour", "ok") =>
            ~gui.tour_active /\ gui.tour_step_index = 0

\* next_tour_step at the last step has just ended the tour
C26_Witness ==
    /\ last = Call("next_tour_step", "ended")
    /\ ~gui.tour_active
    /\ gui.tour_step_index = 0
    /\ gui.active_tab = tour_steps[Len(tour_steps)]

\* the bracket is one generated from its player list, played or not: round 1
\* pairs the players in the order of the list
Generated(b) ==
    /\ b # NoBracket
    /\ Len(b.participants) = b.num_participants
    /\ \A k \in 1..Len(b.matches[1]) :
        /\ b.matches[1][k].player1 =
                first_round_match(b.seeded_participants, k - 1).player1
        /\ b.matches[1][k].player2 =
                first_round_match(b.seeded_participants, k - 1).player2
    /\ b.seeded_participants = seed_participants(b.participants, b.bracket_size)

\* C27: whenever the current bracket was built from two or more players and
\* has no champion yet, the Bracket tab offers a match to decide (one with
\* both players and no winner), so that play can always go on until a
\* champion is determined.
C27_PlayableToCompletion ==
    (/\ Generated(bracket)
     /\ bracket.num_participants >= 2
     /\ get_champion(bracket) = None) =>
        \E r \in 1..Len(bracket.matches) :
            \E k \in 1..Len(bracket.matches[r]) :
                declarable(bracket.matches[r][k])

\* C28: set_match_winner with a valid round and an index outside
\* 0..(number of matches of the round - 1), negative indexes included, fails
\* and leaves the bracket as it was.
C28_IndexOutOfRangeRejected ==
    \A r \in 1..bracket.num_rounds :
      \A i \in IndexArgs(bracket, r) \ (0..(Len(bracket.matches[r]) - 1)) :
        \A w \in WinnerArgs :
            /\ set_match_winner_result(bracket, r, i, w) # "ok"
            /\ set_match_winner(bracket, r, i, w) = bracket

\* C29: set_match_winner(r, i, w) on a match whose winner already is w,
\* whether declared earlier or set by bye auto-resolution, succeeds and
\* leaves the whole bracket as it was.
C29_RedeclareIdempotent ==
    \A r \in 1..bracket.num_rounds :
      \A i \in 0..(Len(bracket.matches[r]) - 1) :
        LET w == bracket.matches[r][i + 1].winner
        IN  w # None =>
                /\ set_match_winner_result(bracket, r, i, w) = "ok"
                /\ set_match_winner(bracket, r, i, w) = bracket

\* C30: right after construction from two or more participants no round-1
\* match has both slots empty.
C30_NoDoubleBye ==
    bracket.num_participants >= 2 =>
        \A k \in 1..Len(bracket.matches[1]) :
            \/ bracket.matches[1][k].player1 # None
            \/ bracket.matches[1][k].player2 # None

\* C31: a load_tournament that does not complete (no file, a file that
\* cannot be parsed, or bracket data that does not fit its participant list)
\* leaves the session as it was or with no tournament loaded; it never
\* leaves the identifier, metadata and players of the requested tournament
\* next to the bracket that was current before.
C31_FailedLoadAllOrNothing ==
    \A tournament_id \in DOMAIN tournaments_dir :
        LET loaded == load_tournament(tournaments_dir, gui, bracket,
                                      tournament_id)
        IN  loaded.printed # "Loaded tournament" =>
                \/ /\ [loaded.gui EXCEPT !.shared = gui.shared] = gui
                   /\ loaded.bracket = bracket
                \/ /\ loaded.gui.current_tournament_id = None
                   /\ loaded.gui.current_metadata = NoMetadata
                   /\ loaded.gui.editing_players = <<>>
                   /\ loaded.bracket = NoBracket

\* C32: whenever a match is selected, a bracket is loaded and the selection
\* names a round and an index of that bracket.
C32_SelectionValid ==
    gui.selected_match # NoSelection =>
        /\ bracket # NoBracket
        /\ gui.selected_match[1] \in 1..Len(bracket.matches)
        /\ gui.selected_match[2] \in
                0..(Len(bracket.matches[gui.selected_match[1]]) - 1)

\* C33: in every session state the tournaments list holds exactly the
\* records present in the directory, so a tournament is listed as soon as
\* it is created.
C33_ListInStep ==
    {gui.tournaments_list[k] : k \in 1..Len(gui.tournaments_list)} =
        {list_entry(tournaments_dir[id]) :
            id \in {t \in DOMAIN tournaments_dir :
                        tournaments_dir[t] # NoFile}}

\* the matches of the bracket that have a winner
Decided(b) ==
    {<<r, k>> \in (1..Len(b.matches)) \X (1..(b.bracket_size \div 2)) :
        k <= Len(b.matches[r]) /\ b.matches[r][k].winner # None}

ParticipantNames(b) == {b.participants[k] : k \in 1..Len(b.participants)}

\* C35: after any sequence of set_match_winner calls every slot that is not
\* empty and every winner that is set, in every round, is a name of the
\* participant list, and get_champion returns none or a participant.
C35_OnlyParticipantsAdvance ==
    /\ \A r \in 1..Len(bracket.matches) :
        \A k \in 1..Len(bracket.matches[r]) :
            /\ bracket.matches[r][k].player1
                    \in ParticipantNames(bracket) \cup {None}
            /\ bracket.matches[r][k].player2
                    \in ParticipantNames(bracket) \cup {None}
            /\ bracket.matches[r][k].winner
                    \in ParticipantNames(bracket) \cup {None}
    /\ get_champion(bracket) \in ParticipantNames(bracket) \cup {None}

\* B, one of the participants A, A, B, has been declared champion while the
\* set_match_winner calls also tried the name of an outsider
C35_Witness ==
    /\ last = Call("set_match_winner", "ok")
    /\ bracket.participants = <<"A", "A", "B">>
    /\ bracket.matches[2][1].player1 = "A"
    /\ bracket.matches[2][1].player2 = "B"
    /\ get_champion(bracket) = "B"

\* C36: for two different matches i and j of one round and any two winner
\* arguments (a name, in the match or not, or none), each set_match_winner call has the same outcome whether it is
\* made first or second, and the bracket after both calls is the same in
\* either order.
C36_SameRoundCommute ==
    \A r \in 1..bracket.num_rounds :
      \A i, j \in 0..(Len(bracket.matches[r]) - 1) :
        i < j =>
          \A w1, w2 \in Names \cup {None} :
            LET after_i == set_match_winner(bracket, r, i, w1)
                after_j == set_match_winner(bracket, r, j, w2)
            IN  /\ set_match_winner_result(after_j, r, i, w1) =
                        set_match_winner_result(bracket, r, i, w1)
                /\ set_match_winner_result(after_i, r, j, w2) =
                        set_match_winner_result(bracket, r, j, w2)
                /\ set_match_winner(after_i, r, j, w2) =
                        set_match_winner(after_j, r, i, w1)

\* both round-1 matches of a four-slot bracket have been declared and the
\* final holds the two winners, each in its own slot
C36_Witness ==
    /\ last = Call("set_match_winner", "ok")
    /\ bracket.participants = <<"A", "B", "B", "A">>
    /\ bracket.matches[1][1].winner = "B"
    /\ bracket.matches[1][2].winner = "A"
    /\ bracket.matches[2][1].player1 = "B"
    /\ bracket.matches[2][1].player2 = "A"

\* the participant at 0-based input position p, none past the end of the list
InputAt(b, p) == IF p < Len(b.participants) THEN b.participants[p + 1] ELSE None

\* C37: right after construction round-1 match i holds in its two slots the
\* participants at input positions 2i and 2i+1, empty where the position is
\* past the end of the list, so that no participant follows an empty slot;
\* and the bracket is the one construction gives for its participant list.
C37_SeedingInOrder ==
    /\ Len(bracket.matches[1]) = bracket.bracket_size \div 2
    /\ \A i \in 0..(Len(bracket.matches[1]) - 1) :
        /\ bracket.matches[1][i + 1].player1 = InputAt(bracket, 2 * i)
        /\ bracket.matches[1][i + 1].player2 = InputAt(bracket, 2 * i + 1)
    /\ \A p, q \in 1..Len(bracket.seeded_participants) :
        (p < q /\ bracket.seeded_participants[p] = None) =>
            bracket.seeded_participants[q] = None
    /\ bracket = TournamentBracket(bracket.participants)

\* a bracket of five participants: the fifth is alone in the third match and
\* the fourth match is empty
C37_Witness ==
    /\ last = Call("__init__", "ok")
    /\ bracket.participants = <<"A", "B", "A", "B", "B">>
    /\ bracket.matches[1][2].player1 = "A"
    /\ bracket.matches[1][3].player1 = "B"
    /\ bracket.matches[1][3].player2 = None
    /\ bracket.matches[1][4].player1 = None

\* C38: a save that is interrupted leaves the file of the current
\* tournament truncated, whatever it held, and leaves every other file and
\* the session as they were; and a load of a truncated file prints an error,
\* raises nothing and leaves the session as it was.
C38_SaveNotAtomic ==
    [][/\ (/\ last' = Call("save_current_tournament",
                            "Error saving tournament")
           /\ last' # last) =>
            /\ tournaments_dir'[gui.current_tournament_id] = Truncated
            /\ \A id \in DOMAIN tournaments_dir :
                id # gui.current_tournament_id =>
                    tournaments_dir'[id] = tournaments_dir[id]
            /\ gui' = gui
            /\ bracket' = bracket
       /\ \A id \in DOMAIN tournaments_dir :
            tournaments_dir[id] = Truncated =>
                load_tournament(tournaments_dir, gui, bracket, id) =
                    [gui |-> gui, bracket |-> bracket,
                     printed |-> "Error loading tournament"]]_vars

\* the save of t2, which held a player and a bracket, has just been cut
\* short, while the record of t1 is still whole
C38_Witness ==
    /\ last = Call("save_current_tournament", "Error saving tournament")
    /\ gui.current_tournament_id = "t2"
    /\ bracket # NoBracket
    /\ tournaments_dir["t2"] = Truncated
    /\ tournaments_dir["t1"] \notin {NoFile, Truncated}

====
